---- MODULE Spec2Model ----
(***************************************************************************)
(* Model of the sowing-date core of AgriFarm (src/bla_bla_bla.py):         *)
(*   _normalize_nepali_month, get_nepali_sowing_dates, get_crops_for_place.*)
(*                                                                         *)
(* A Python str is a sequence of Unicode code points (natural numbers).    *)
(* A datetime.date is a record [y, m, d]; clock is the date that            *)
(* datetime.date.today() returns.                                          *)
(* The outcome of a call is a record:                                      *)
(*   [kind |-> "return", value |-> v,    msg |-> "",  arg |-> <<>>]        *)
(*   [kind |-> "raise",  value |-> <<>>, msg |-> text, arg |-> offender]   *)
(***************************************************************************)
EXTENDS Integers, Sequences, FiniteSets, TLC

VARIABLES df, clock, call, ret

vars == <<df, clock, call, ret>>

(***************************************************************************)
(* Bounds of the model                                                     *)
(***************************************************************************)
\* last year the clock (datetime.date.today()) is drawn from; the first is 2023
MaxYear == 2024
\* largest number of rows of the crop table (clean.csv)
MaxRows == 2

(***************************************************************************)
(* str primitives                                                          *)
(***************************************************************************)
Min(S) == CHOOSE x \in S : \A y \in S : x <= y
Max(S) == CHOOSE x \in S : \A y \in S : x >= y

\* str.lower() on one code point (the model's alphabet has no cased
\* character outside A-Z / a-z)
Lower(c) == IF c \in 65..90 THEN c + 32 ELSE c
Upper(c) == IF c \in 97..122 THEN c - 32 ELSE c

LowerStr(s) == [i \in 1..Len(s) |-> Lower(s[i])]
UpperStr(s) == [i \in 1..Len(s) |-> Upper(s[i])]

\* the code points str.isspace() accepts
Whitespace ==
    {9, 10, 11, 12, 13, 28, 29, 30, 31, 32, 133, 160, 5760}
    \cup (8192..8202) \cup {8232, 8233, 8239, 8287, 12288}

IsSpace(c) == c \in Whitespace

\* str.strip(): from the first to the last character that is not whitespace
Strip(s) ==
    LET n  == Len(s)
        lo == CHOOSE i \in 1..(n + 1) :
                  /\ i = n + 1 \/ ~IsSpace(s[i])
                  /\ \A j \in 1..(i - 1) : IsSpace(s[j])
        hi == CHOOSE i \in 0..n :
                  /\ i = 0 \/ ~IsSpace(s[i])
                  /\ \A j \in (i + 1)..n : IsSpace(s[j])
    IN  IF lo > hi THEN <<>> ELSE SubSeq(s, lo, hi)

\* str.startswith(p)
StartsWith(s, p) == Len(p) <= Len(s) /\ SubSeq(s, 1, Len(p)) = p

\* `sub in s`
Contains(s, sub) ==
    \E i \in 1..(Len(s) + 1) :
        i + Len(sub) - 1 <= Len(s) /\ SubSeq(s, i, i + Len(sub) - 1) = sub

\* s[:n]
Prefix(s, n) == SubSeq(s, 1, IF n < Len(s) THEN n ELSE Len(s))

\* str.split(sep) for a one-character separator
RECURSIVE Split(_, _)
Split(s, sep) ==
    LET hits == {i \in 1..Len(s) : s[i] = sep}
    IN  IF hits = {} THEN <<s>>
        ELSE <<SubSeq(s, 1, Min(hits) - 1)>>
             \o Split(SubSeq(s, Min(hits) + 1, Len(s)), sep)

\* Python's ordering of two str values (by code point, then by length)
RECURSIVE StrLess(_, _)
StrLess(s, t) ==
    IF t = <<>> THEN FALSE
    ELSE IF s = <<>> THEN TRUE
    ELSE IF s[1] /= t[1] THEN s[1] < t[1]
    ELSE StrLess(Tail(s), Tail(t))

\* F(v) with v evaluated once, as a local variable of the code is
Bind(v, F(_)) == CHOOSE r \in {F(x) : x \in {v}} : TRUE

(***************************************************************************)
(* Outcomes                                                                *)
(***************************************************************************)
Return(v) == [kind |-> "return", value |-> v, msg |-> "", arg |-> <<>>]
Raise(m, a) == [kind |-> "raise", value |-> <<>>, msg |-> m, arg |-> a]

(***************************************************************************)
(* nepali_to_english_dates_conversion  (a dict: iteration order is the     *)
(* order of insertion)                                                     *)
(***************************************************************************)
Baisakh == <<66, 97, 105, 115, 97, 107, 104>>       \* "Baisakh"
Jestha  == <<74, 101, 115, 116, 104, 97>>           \* "Jestha"
Ashad   == <<65, 115, 104, 97, 100>>                \* "Ashad"
Shrawan == <<83, 104, 114, 97, 119, 97, 110>>       \* "Shrawan"
Bhadra  == <<66, 104, 97, 100, 114, 97>>            \* "Bhadra"
Ashwin  == <<65, 115, 104, 119, 105, 110>>          \* "Ashwin"
Kartik  == <<75, 97, 114, 116, 105, 107>>           \* "Kartik"
Mangsir == <<77, 97, 110, 103, 115, 105, 114>>      \* "Mangsir"
Poush   == <<80, 111, 117, 115, 104>>               \* "Poush"
Magh    == <<77, 97, 103, 104>>                     \* "Magh"
Falgun  == <<70, 97, 108, 103, 117, 110>>           \* "Falgun"
Chaitra == <<67, 104, 97, 105, 116, 114, 97>>       \* "Chaitra"

nepali_to_english_dates_conversion ==
    << [key |-> Baisakh, month |-> 4,  day |-> 14],
       [key |-> Jestha,  month |-> 5,  day |-> 15],
       [key |-> Ashad,   month |-> 6,  day |-> 15],
       [key |-> Shrawan, month |-> 7,  day |-> 16],
       [key |-> Bhadra,  month |-> 8,  day |-> 17],
       [key |-> Ashwin,  month |-> 9,  day |-> 17],
       [key |-> Kartik,  month |-> 10, day |-> 18],
       [key |-> Mangsir, month |-> 11, day |-> 17],
       [key |-> Poush,   month |-> 12, day |-> 16],
       [key |-> Magh,    month |-> 1,  day |-> 15],
       [key |-> Falgun,  month |-> 2,  day |-> 14],
       [key |-> Chaitra, month |-> 3,  day |-> 15] >>

\* list(nepali_to_english_dates_conversion.keys())
keys == [i \in 1..Len(nepali_to_english_dates_conversion) |->
            nepali_to_english_dates_conversion[i].key]

\* nepali_to_english_dates_conversion[k]
Anchor(k) ==
    LET i == CHOOSE j \in 1..Len(keys) : keys[j] = k
    IN  nepali_to_english_dates_conversion[i]

\* the alias dict of _normalize_nepali_month
aliases ==
    << <<<<97, 115, 111, 106>>, Ashwin>>,                        \* 'asoj'
       <<<<97, 115, 104, 111, 106>>, Ashwin>>,                   \* 'ashoj'
       <<<<97, 115, 119, 105, 110>>, Ashwin>>,                   \* 'aswin'
       <<<<98, 97, 105, 115, 104, 97, 107, 104>>, Baisakh>>,     \* 'baishakh'
       <<<<98, 97, 105, 115, 104, 97, 107>>, Baisakh>>,          \* 'baishak'
       <<<<98, 97, 105, 115, 97, 107, 104>>, Baisakh>> >>        \* 'baisakh'

(***************************************************************************)
(* difflib.SequenceMatcher(a, b).ratio() and difflib.get_close_matches     *)
(* (no junk: isjunk is None and every string is shorter than 200)          *)
(***************************************************************************)
\* length of the common run of a[i:] and b[j:], offsets from 0, ends ahi/bhi
RECURSIVE RunLen(_, _, _, _, _, _)
RunLen(a, b, i, j, ahi, bhi) ==
    IF i < ahi /\ j < bhi /\ a[i + 1] = b[j + 1]
    THEN 1 + RunLen(a, b, i + 1, j + 1, ahi, bhi)
    ELSE 0

\* find_longest_match(alo, ahi, blo, bhi): the longest block, the earliest
\* in a among the longest, the earliest in b among those
find_longest_match(a, b, alo, ahi, blo, bhi) ==
    LET pairs == (alo..(ahi - 1)) \X (blo..(bhi - 1))
        k     == Max({RunLen(a, b, p[1], p[2], ahi, bhi) : p \in pairs} \cup {0})
        besti == Min({p[1] : p \in {q \in pairs :
                                     RunLen(a, b, q[1], q[2], ahi, bhi) = k}})
        bestj == Min({p[2] : p \in {q \in pairs :
                                     q[1] = besti
                                     /\ RunLen(a, b, q[1], q[2], ahi, bhi) = k}})
    IN  IF k = 0 THEN <<alo, blo, 0>> ELSE <<besti, bestj, k>>

\* sum of the sizes of get_matching_blocks() within a[alo:ahi], b[blo:bhi]
RECURSIVE MatchCount(_, _, _, _, _, _)
MatchCount(a, b, alo, ahi, blo, bhi) ==
    IF alo >= ahi \/ blo >= bhi THEN 0
    ELSE LET m == find_longest_match(a, b, alo, ahi, blo, bhi)
             i == m[1]
             j == m[2]
             k == m[3]
         IN  IF k = 0 THEN 0
             ELSE k
                  + (IF alo < i /\ blo < j
                     THEN MatchCount(a, b, alo, i, blo, j) ELSE 0)
                  + (IF i + k < ahi /\ j + k < bhi
                     THEN MatchCount(a, b, i + k, ahi, j + k, bhi) ELSE 0)

\* ratio() = 2.0 * matches / (len(a) + len(b)), kept as a fraction <<num, den>>
Ratio(a, b) ==
    IF Len(a) + Len(b) = 0 THEN <<1, 1>>
    ELSE <<2 * MatchCount(a, b, 0, Len(a), 0, Len(b)), Len(a) + Len(b)>>

\* cutoff=0.5 of the get_close_matches call
CutoffNum == 1
CutoffDen == 2

\* heapq.nlargest(1, result): of the candidates scoring at least the cutoff,
\* the one with the greatest (score, candidate) pair; score[i] is the ratio
\* of possibilities[i]
BestMatch(possibilities, score) ==
    LET good == {i \in 1..Len(possibilities) :
                    score[i][1] * CutoffDen >= CutoffNum * score[i][2]}
        Better(i, j) ==
            \/ score[i][1] * score[j][2] > score[j][1] * score[i][2]
            \/ /\ score[i][1] * score[j][2] = score[j][1] * score[i][2]
               /\ StrLess(possibilities[j], possibilities[i])
        best == CHOOSE i \in good : \A j \in good \ {i} : Better(i, j)
    IN  IF good = {} THEN <<>> ELSE <<possibilities[best]>>

\* get_close_matches(word, possibilities, n=1, cutoff=0.5); seq1 is the
\* candidate and seq2 the word
get_close_matches(word, possibilities) ==
    BestMatch(possibilities,
              [i \in 1..Len(possibilities) |-> Ratio(possibilities[i], word)])

(***************************************************************************)
(* _normalize_nepali_month                                                 *)
(***************************************************************************)
\* length of the prefix compared by the startswith strategy (low[:3])
PrefixLen == 3

\* exact case-insensitive match: the first key equal to clean, or <<>>
ExactMatch(clean) ==
    LET hit == {i \in 1..Len(keys) : LowerStr(clean) = LowerStr(keys[i])}
    IN  IF hit = {} THEN <<>> ELSE <<keys[Min(hit)]>>

\* alias lookup: aliases[low] if low in aliases, or <<>>
AliasMatch(low) ==
    LET hit == {i \in 1..Len(aliases) : aliases[i][1] = low}
    IN  IF hit = {} THEN <<>> ELSE <<aliases[Min(hit)][2]>>

\* startswith match: the first key whose lowercase starts with low[:3]
PrefixMatch(low) ==
    LET hit == {i \in 1..Len(keys) :
                   StartsWith(LowerStr(keys[i]), Prefix(low, PrefixLen))}
    IN  IF hit = {} THEN <<>> ELSE <<keys[Min(hit)]>>

\* the result of the first strategy that returns a key
FirstOf(found, otherwise) ==
    Bind(found, LAMBDA key : IF key /= <<>> THEN key ELSE otherwise)

\* return the key found, or raise for the name
KeyOrRaise(found, name) ==
    Bind(found, LAMBDA key : IF key /= <<>> THEN Return(key[1])
                              ELSE Raise("Unrecognized Nepali month name", name))

\* a variant that tries the approximate match before the alias table
NormalizeFuzzyBeforeAlias(name, clean, low) ==
    KeyOrRaise(FirstOf(ExactMatch(clean),
               FirstOf(get_close_matches(clean, keys),
               FirstOf(AliasMatch(low),
                       PrefixMatch(low)))), name)

\* lines 30-59: exact, alias, approximate, startswith, in this order
NormalizeClean(name, clean, low) ==
    KeyOrRaise(FirstOf(ExactMatch(clean),
               FirstOf(AliasMatch(low),
               FirstOf(get_close_matches(clean, keys),
                       PrefixMatch(low)))), name)

_normalize_nepali_month(name) ==
    IF name = <<>> THEN Raise("Empty month name", <<>>)
    ELSE Bind(Strip(name),
              LAMBDA clean : NormalizeClean(name, clean, LowerStr(clean)))

(***************************************************************************)
(* datetime.date                                                           *)
(***************************************************************************)
IsLeap(y) == y % 4 = 0 /\ (y % 100 /= 0 \/ y % 400 = 0)

DaysInMonth(y, m) ==
    IF m = 2 THEN (IF IsLeap(y) THEN 29 ELSE 28)
    ELSE IF m \in {4, 6, 9, 11} THEN 30 ELSE 31

\* days before January 1st of year y
DaysBeforeYear(y) ==
    (y - 1) * 365 + ((y - 1) \div 4) - ((y - 1) \div 100) + ((y - 1) \div 400)

\* days of year y before the first day of month m (datetime._days_before_month)
DaysBeforeMonth(y, m) ==
    <<0, 31, 59, 90, 120, 151, 181, 212, 243, 273, 304, 334>>[m]
    + (IF m > 2 /\ IsLeap(y) THEN 1 ELSE 0)

\* datetime.date(y, m, d) accepts the arguments
DateOk(y, m, d) == y \in 1..9999 /\ m \in 1..12 /\ d \in 1..DaysInMonth(y, m)

Date(y, m, d) == [y |-> y, m |-> m, d |-> d]

\* date.toordinal()
ToOrdinal(dt) == DaysBeforeYear(dt.y) + DaysBeforeMonth(dt.y, dt.m) + dt.d

\* date.fromordinal(n)  (datetime._ord2ymd)
FromOrdinal(ord) ==
    LET n0   == ord - 1
        n400 == n0 \div 146097
        r400 == n0 % 146097
        n100 == r400 \div 36524
        r100 == r400 % 36524
        n4   == r100 \div 1461
        r4   == r100 % 1461
        n1   == r4 \div 365
        n    == r4 % 365
        year == n400 * 400 + 1 + n100 * 100 + n4 * 4 + n1
        leapyear == n1 = 3 /\ (n4 /= 24 \/ n100 = 3)
        month0 == (n + 50) \div 32
        before(m) == DaysBeforeMonth(IF leapyear THEN 2024 ELSE 2023, m)
        month == IF before(month0) > n THEN month0 - 1 ELSE month0
    IN  IF n1 = 4 \/ n100 = 4 THEN Date(year - 1, 12, 31)
        ELSE Date(year, month, n - before(month) + 1)

\* a <= b on dates
DateLE(a, b) ==
    \/ a.y < b.y
    \/ a.y = b.y /\ a.m < b.m
    \/ a.y = b.y /\ a.m = b.m /\ a.d <= b.d

\* a variant that leaves out the last day: range(delta)
DateSeqExclusive(start_date, end_date) ==
    LET first == ToOrdinal(start_date)
        delta == ToOrdinal(end_date) - first
    IN  [i \in 1..delta |-> FromOrdinal(first + (i - 1))]

\* [start + timedelta(days=i) for i in range((end - start).days + 1)]
DateSeq(start_date, end_date) ==
    LET first == ToOrdinal(start_date)
        delta == ToOrdinal(end_date) - first
    IN  [i \in 1..(delta + 1) |-> FromOrdinal(first + (i - 1))]

(***************************************************************************)
(* get_nepali_sowing_dates                                                 *)
(***************************************************************************)
\* the replacement character of re.sub and the separator of split: U+2013
EnDash == 8211
\* "(" : the end token is cut at the first parenthesis
LParen == 40

\* the character class [U+2014 - U+2212, U+2013] of the re.sub pattern: its
\* first three characters em-dash, hyphen, minus-sign form a range
InDashClass(c) == c \in 8212..8722 \/ c = 8211

\* re.sub(r"[...]", EnDash, s)
ReSub(s) == [i \in 1..Len(s) |-> IF InDashClass(s[i]) THEN EnDash ELSE s[i]]

\* a variant without the substring test
IsSentinelEqualOnly(low) ==
    low \in { <<110, 47, 97>>, <<110, 97>>, <<110, 111, 110, 101>>,
              <<110, 111, 116, 32, 114, 101, 99, 111, 109, 109, 101, 110, 100,
                101, 100>> }

\* "not recommend" in low or low in ("n/a", "na", "none", "not recommended")
IsSentinel(low) ==
    \/ Contains(low, <<110, 111, 116, 32, 114, 101, 99, 111, 109, 109, 101, 110, 100>>)
    \/ low \in { <<110, 47, 97>>,                    \* "n/a"
                 <<110, 97>>,                        \* "na"
                 <<110, 111, 110, 101>>,             \* "none"
                 <<110, 111, 116, 32, 114, 101, 99, 111, 109, 109, 101, 110, 100,
                   101, 100>> }                      \* "not recommended"

crosses_year(sa, ea) == ea.month < sa.month

\* a variant that never moves the end into the next year
End1YearSameYear(current_year, crosses) == current_year

End1Year(current_year, crosses) ==
    IF crosses THEN current_year + 1 ELSE current_year

Start2Year(current_year) == current_year - 1

\* a variant that always ends the earlier window in the current year
End2YearCurrent(current_year, crosses) == current_year

End2Year(current_year, crosses) ==
    IF crosses THEN current_year ELSE current_year - 1

\* the four candidate dates for the anchors sa, ea in the year of today
Start1(y, sa, ea) == Date(y, sa.month, sa.day)
End1(y, sa, ea)   == Date(End1Year(y, crosses_year(sa, ea)), ea.month, ea.day)
Start2(y, sa, ea) == Date(Start2Year(y), sa.month, sa.day)
End2(y, sa, ea)   == Date(End2Year(y, crosses_year(sa, ea)), ea.month, ea.day)

\* a variant whose else branch falls back to the earlier window
SelectWindowFallbackEarlier(today, start1, end1, start2, end2) ==
    IF DateLE(start1, today) /\ DateLE(today, end1) THEN <<start1, end1>>
    ELSE <<start2, end2>>

\* the if / elif / else that picks <<start_date, end_date>>
SelectWindow(today, start1, end1, start2, end2) ==
    IF DateLE(start1, today) /\ DateLE(today, end1) THEN <<start1, end1>>
    ELSE IF DateLE(start2, today) /\ DateLE(today, end2) THEN <<start2, end2>>
    ELSE <<start1, end1>>

\* lines 95-115: the four candidate dates are built, then the list of the
\* selected window
WindowOf(today, s1, e1, s2, e2, start_key, end_key) ==
    IF ~DateOk(s1.y, s1.m, s1.d) THEN Raise("day is out of range for month", start_key)
    ELSE IF ~DateOk(e1.y, e1.m, e1.d) THEN Raise("day is out of range for month", end_key)
    ELSE IF ~DateOk(s2.y, s2.m, s2.d) THEN Raise("day is out of range for month", start_key)
    ELSE IF ~DateOk(e2.y, e2.m, e2.d) THEN Raise("day is out of range for month", end_key)
    ELSE Bind(SelectWindow(today, s1, e1, s2, e2),
              LAMBDA w : Return(DateSeq(w[1], w[2])))

\* lines 86-115: from the two anchors to the list of dates
WindowDates(sa, ea, today, start_key, end_key) ==
    WindowOf(today, Start1(today.y, sa, ea), End1(today.y, sa, ea),
             Start2(today.y, sa, ea), End2(today.y, sa, ea), start_key, end_key)

\* lines 83-115: the two normalized months; the exception of the first that
\* fails propagates
ResolveKeys(start_month_nep_key, end_month_nep_key, today) ==
    IF start_month_nep_key.kind = "raise" THEN start_month_nep_key
    ELSE IF end_month_nep_key.kind = "raise" THEN end_month_nep_key
    ELSE WindowDates(Anchor(start_month_nep_key.value),
                     Anchor(end_month_nep_key.value), today,
                     start_month_nep_key.value, end_month_nep_key.value)

\* lines 76-84: fewer than two segments give [], else the two tokens
ResolveMonths(months, today) ==
    IF Len(months) < 2 THEN Return(<<>>)
    ELSE Bind(<<_normalize_nepali_month(Strip(months[1])),
                _normalize_nepali_month(Strip(Split(months[2], LParen)[1]))>>,
              LAMBDA k : ResolveKeys(k[1], k[2], today))

\* lines 70-74: the sentinel test on the rewritten string, then the split
ResolveClean(s, today) ==
    IF IsSentinel(LowerStr(s)) THEN Return(<<>>)
    ELSE Bind(Split(s, EnDash), LAMBDA months : ResolveMonths(months, today))

get_nepali_sowing_dates(nep_range, today) ==
    IF nep_range = <<>> THEN Return(<<>>)
    ELSE Bind(ReSub(Strip(nep_range)), LAMBDA s : ResolveClean(s, today))

(***************************************************************************)
(* get_crops_for_place                                                     *)
(*                                                                         *)
(* df is the table read from clean.csv when the module is imported: a      *)
(* sequence of rows; a cell is <<>> when it is NaN and <<text>> otherwise. *)
(* None is <<>> and a value v that may be None is <<v>>.                   *)
(***************************************************************************)
\* the column chosen for a place name, "" when the place is not recognized
Column(place_name) ==
    LET p == LowerStr(place_name)
    IN  IF Contains(p, <<104, 105, 103, 104>>)                  \* "high"
        THEN "High_Hill_Sowing"
        ELSE IF Contains(p, <<109, 105, 100>>)                  \* "mid"
        THEN "Mid_Hill_Sowing"
        ELSE IF \/ Contains(p, <<116, 101, 114, 97, 105>>)      \* "terai"
                \/ Contains(p, <<98, 101, 110, 115, 105>>)      \* "bensi"
        THEN "Terai_Bensi_Sowing"
        ELSE ""

\* df[df[col].notna()]
NotNa(table, col) == SelectSeq(table, LAMBDA row : row[col] /= <<>>)

\* f"{row['Crop']} - {row['Variety']}"
CropKey(row) == row.Crop \o <<32, 45, 32>> \o row.Variety

\* result[k] = v on a dict kept as a sequence of <<key, value>> pairs
DictSet(d, k, v) ==
    IF \E i \in 1..Len(d) : d[i][1] = k
    THEN [i \in 1..Len(d) |-> IF d[i][1] = k THEN <<k, v>> ELSE d[i]]
    ELSE Append(d, <<k, v>>)

\* the for loop over crops.iterrows(), from the rows still to visit
RECURSIVE CropsLoop(_, _, _, _)

\* one iteration: the row, and the outcome of resolving its range
CropsStep(crops, col, today, result, row, dates) ==
    IF dates.kind = "raise"
    THEN [result |-> <<>>,
          error  |-> <<[text  |-> "Error parsing sowing range",
                        range |-> row[col][1],
                        e     |-> dates]>>]
    ELSE Bind(DictSet(result, CropKey(row), dates.value),
              LAMBDA updated : CropsLoop(Tail(crops), col, today, updated))

CropsLoop(crops, col, today, result) ==
    IF crops = <<>> THEN [result |-> <<result>>, error |-> <<>>]
    ELSE Bind(get_nepali_sowing_dates(Head(crops)[col][1], today),
              LAMBDA dates : CropsStep(crops, col, today, result, Head(crops), dates))

\* lines 128-141, for the column col
CropsOfColumn(col, table, today) ==
    CropsLoop(NotNa(table, col), col, today, <<>>)

get_crops_for_place(place_name, table, today) ==
    IF Column(place_name) = ""
    THEN [result |-> <<>>,
          error  |-> <<[text |-> "Place not recognized", range |-> <<>>,
                        e |-> Return(<<>>)]>>]
    ELSE CropsOfColumn(Column(place_name), table, today)

(***************************************************************************)
(* Inputs                                                                  *)
(***************************************************************************)
Xyzzy      == <<88, 121, 122, 122, 121>>                        \* "Xyzzy"
Magxxxxxxx == <<77, 97, 103, 120, 120, 120, 120, 120, 120, 120>> \* "Magxxxxxxx"
Jeth       == <<74, 101, 116, 104>>                             \* "Jeth"
Saun       == <<83, 97, 117, 110>>                              \* "Saun"
Asadh      == <<65, 115, 97, 100, 104>>                         \* "Asadh"
Fagun      == <<70, 97, 103, 117, 110>>                         \* "Fagun"
Push       == <<80, 117, 115, 104>>                             \* "Push"
Mangshir   == <<77, 97, 110, 103, 115, 104, 105, 114>>          \* "Mangshir"
Ashoj      == <<65, 115, 104, 111, 106>>                        \* "Ashoj"

KeySet   == {keys[i] : i \in 1..Len(keys)}
AliasSet == {aliases[i][1] : i \in 1..Len(aliases)}

\* " " + s + " "
Pad(s) == <<32>> \o s \o <<32>>
\* s.capitalize() of a lowercase s
Capitalize(s) == [i \in 1..Len(s) |-> IF i = 1 THEN Upper(s[i]) ELSE s[i]]

\* names passed to _normalize_nepali_month
Tokens ==
    LET spelled == KeySet \cup AliasSet \cup {Capitalize(a) : a \in AliasSet}
    IN  spelled
        \cup {UpperStr(s) : s \in spelled}
        \cup {LowerStr(s) : s \in spelled}
        \cup {Pad(s) : s \in spelled}
        \cup { <<>>, <<32>>, <<32, 32>>, <<9, 32>>, <<10>>,     \* "", " ", "  ", "\t ", "\n"
               Xyzzy, Magxxxxxxx, Jeth, Saun, Asadh, Fagun, Push, Mangshir,
               <<97>>, <<80, 111>>, <<120>> }                   \* "a", "Po", "x"

\* the four glyphs the separator may be written with:
\* em-dash U+2014, hyphen U+002D, minus-sign U+2212, en-dash U+2013
DashGlyphs == {8212, 45, 8722, 8211}

DashRange(m1, d, m2) == m1 \o <<d>> \o m2

\* key1 + en-dash + key2, for the 144 pairs of canonical months
CanonRanges == {DashRange(k1, EnDash, k2) : k1 \in KeySet, k2 \in KeySet}

\* month tokens written with each of the four glyphs
DashTokens == { <<Baisakh, Jestha>>, <<Poush, Magh>>, <<Ashoj, Mangsir>>,
                <<Falgun, Falgun>> }
DashRanges == {DashRange(p[1], d, p[2]) : p \in DashTokens, d \in DashGlyphs}

NotRecommend == <<110, 111, 116, 32, 114, 101, 99, 111, 109, 109, 101, 110, 100>>

SentinelRanges ==
    { <<32>>, <<32, 9>>,                                        \* " ", " \t"
      <<78, 111, 116, 32, 82, 101, 99, 111, 109, 109, 101, 110, 100, 101, 100>>,
                                                                \* "Not Recommended"
      NotRecommend \o <<101, 100>>,                             \* "not recommended"
      <<110, 47, 97>>, <<78, 47, 65>>,                          \* "n/a", "N/A"
      <<110, 97>>, <<78, 65, 32>>,                              \* "na", "NA "
      <<110, 111, 110, 101>>, <<78, 111, 110, 101>>,            \* "none", "None"
      <<78, 111, 116, 32, 114, 101, 99, 111, 109, 109, 101, 110, 100, 101, 100,
        32, 102, 111, 114, 32, 104, 105, 108, 108, 115>>,       \* "Not recommended for hills"
      DashRange(NotRecommend, EnDash, Xyzzy),                   \* "not recommend" + dash + "Xyzzy"
      DashRange(Xyzzy, 8212, UpperStr(NotRecommend)),           \* "Xyzzy" + em-dash + "NOT RECOMMEND"
      DashRange(NotRecommend, 45, <<>>) }                       \* "not recommend-"

OtherRanges ==
    { Baisakh, Xyzzy,                                           \* no separator
      <<66, 97, 105, 115, 97, 107, 104, 32, 74, 101, 115, 116, 104, 97>>,
                                                                \* "Baisakh Jestha"
      DashRange(Baisakh, EnDash, Xyzzy),
      DashRange(Xyzzy, EnDash, Jestha),
      DashRange(<<>>, EnDash, Jestha),                          \* empty start token
      DashRange(Baisakh, EnDash, <<>>),                         \* empty end token
      DashRange(Baisakh, EnDash, <<40, 109, 105, 100, 41>>),    \* "Baisakh" + dash + "(mid)"
      DashRange(Baisakh, EnDash, Jestha) \o <<32, 40, 109, 105, 100, 41>>,
                                                                \* ... + " (mid)"
      DashRange(Poush, EnDash, Magh) \o <<40, 84, 101, 114, 97, 105, 41>>,
                                                                \* ... + "(Terai)"
      DashRange(Baisakh, EnDash, Jestha) \o <<EnDash>> \o Ashad,
      Pad(DashRange(Pad(Poush), EnDash, Pad(Magh))),            \* "  Poush - Magh  "
      DashRange(Jeth, EnDash, Saun),
      DashRange(UpperStr(Ashwin), EnDash, Magxxxxxxx),
      DashRange(Baisakh, 8226, Jestha) }                        \* bullet U+2022

\* strings passed to get_nepali_sowing_dates
Ranges == {<<>>} \cup CanonRanges \cup DashRanges \cup SentinelRanges \cup OtherRanges

\* values of datetime.date.today(): in each year the twelve anchor days, the
\* day before and the day after each, the first and the last day of
\* the year, the days around the end of February, and May 1st
Todays ==
    LET anchor(y, i) == Date(y, nepali_to_english_dates_conversion[i].month,
                                nepali_to_english_dates_conversion[i].day)
    IN  {FromOrdinal(ToOrdinal(anchor(y, i)) + o) :
            y \in 2023..MaxYear, i \in 1..Len(keys), o \in {-1, 0, 1}}
        \cup {Date(y, md[1], md[2]) :
                y \in 2023..MaxYear,
                md \in {<<1, 1>>, <<2, 28>>, <<3, 1>>, <<5, 1>>, <<12, 31>>}}
        \cup {Date(y, 2, 29) : y \in {yy \in 2023..MaxYear : IsLeap(yy)}}

\* the clock values of the batch calls
BatchTodays == {Date(y, 5, 1) : y \in 2023..MaxYear} \cup {Date(2023, 1, 10)}

Places ==
    { <<72, 105, 103, 104, 32, 72, 105, 108, 108>>,             \* "High Hill"
      <<109, 105, 100, 32, 104, 105, 108, 108>>,                \* "mid hill"
      <<84, 101, 114, 97, 105>>,                                \* "Terai"
      <<66, 101, 110, 115, 105>>,                               \* "Bensi"
      <<72, 105, 103, 104, 109, 105, 100>>,                     \* "Highmid"
      <<75, 97, 116, 104, 109, 97, 110, 100, 117>> }            \* "Kathmandu"

Rice  == <<82, 105, 99, 101>>                                   \* "Rice"
Wheat == <<87, 104, 101, 97, 116>>                              \* "Wheat"
Local == <<76, 111, 99, 97, 108>>                               \* "Local"

\* the three sowing cells of a row: High_Hill, Mid_Hill, Terai_Bensi
CellTriples ==
    { << <<DashRange(Baisakh, EnDash, Jestha)>>, <<DashRange(Poush, EnDash, Magh)>>,
         <<DashRange(Ashoj, EnDash, Mangsir)>> >>,
      << <<DashRange(Baisakh, EnDash, Xyzzy)>>, <<DashRange(<<>>, EnDash, Magh)>>,
         <<Xyzzy>> >>,
      << <<>>, <<DashRange(Falgun, EnDash, Falgun)>>,
         <<DashRange(Xyzzy, EnDash, Jestha)>> >>,
      << <<DashRange(Falgun, 45, Chaitra)>>, <<>>,
         <<NotRecommend \o <<101, 100>> >> >> }

Rows ==
    { [Crop |-> c, Variety |-> Local,
       High_Hill_Sowing |-> t[1], Mid_Hill_Sowing |-> t[2],
       Terai_Bensi_Sowing |-> t[3]] : c \in {Rice, Wheat}, t \in CellTriples }

RECURSIVE TablesOfLen(_)
TablesOfLen(n) ==
    IF n = 0 THEN {<<>>}
    ELSE {Append(tb, r) : tb \in TablesOfLen(n - 1), r \in Rows}

\* contents of clean.csv
Tables == UNION {TablesOfLen(n) : n \in 0..MaxRows}

(***************************************************************************)
(* The program: the module is imported, then its functions are called,     *)
(* one call at a time                                                      *)
(***************************************************************************)
NoCall == [fn |-> "import"]

\* import with a table that has no rows, on any day of the clock
Init ==
    /\ df = <<>>
    /\ clock \in Todays
    /\ call = NoCall
    /\ ret = Return(<<>>)

\* import with any table
InitBatch ==
    /\ df \in Tables
    /\ clock \in BatchTodays
    /\ call = NoCall
    /\ ret = Return(<<>>)

NormalizeCall ==
    \E name \in Tokens :
        /\ call = NoCall
        /\ call' = [fn |-> "_normalize_nepali_month", name |-> name]
        /\ ret' = _normalize_nepali_month(name)
        /\ UNCHANGED <<df, clock>>

ResolveCall ==
    \E nep_range \in Ranges :
        /\ call = NoCall
        /\ call' = [fn |-> "get_nepali_sowing_dates", nep_range |-> nep_range]
        /\ ret' = get_nepali_sowing_dates(nep_range, clock)
        /\ UNCHANGED <<df, clock>>

CropsCall ==
    \E place_name \in Places :
        /\ call = NoCall
        /\ call' = [fn |-> "get_crops_for_place", place_name |-> place_name]
        /\ ret' = get_crops_for_place(place_name, df, clock)
        /\ UNCHANGED <<df, clock>>

\* the caller is done with the value: nothing is kept between calls
Done ==
    /\ call /= NoCall
    /\ call' = NoCall
    /\ ret' = Return(<<>>)
    /\ UNCHANGED <<df, clock>>

Next == NormalizeCall \/ ResolveCall \/ CropsCall \/ Done

Spec == Init /\ [][Next]_vars

NextBatch == CropsCall \/ Done

SpecBatch == InitBatch /\ [][NextBatch]_vars

(***************************************************************************)
(* Properties                                                              *)
(***************************************************************************)
IsNormalize == call.fn = "_normalize_nepali_month"
IsResolve   == call.fn = "get_nepali_sowing_dates"
IsCrops     == call.fn = "get_crops_for_place"

DateLT(a, b) == DateLE(a, b) /\ a /= b

\* the calendar day after dt
NextDay(dt) ==
    IF dt.d < DaysInMonth(dt.y, dt.m) THEN Date(dt.y, dt.m, dt.d + 1)
    ELSE IF dt.m < 12 THEN Date(dt.y, dt.m + 1, 1)
    ELSE Date(dt.y + 1, 1, 1)

\* ranges whose two month tokens are known to stand for canonical months:
\* <<range, start month, end month>>
KnownRanges ==
    {<<DashRange(k1, EnDash, k2), k1, k2>> : k1 \in KeySet, k2 \in KeySet}
    \cup {<<DashRange(p[1], d, p[2]), p[1], p[2]>> :
             p \in {<<Baisakh, Jestha>>, <<Poush, Magh>>, <<Falgun, Falgun>>},
             d \in {8212, 8722}}
    \cup {<<DashRange(Ashoj, d, Mangsir), Ashwin, Mangsir>> : d \in {8212, 8722, 8211}}
    \cup { <<DashRange(Baisakh, EnDash, Jestha) \o <<32, 40, 109, 105, 100, 41>>,
             Baisakh, Jestha>>,
           <<DashRange(Poush, EnDash, Magh) \o <<40, 84, 101, 114, 97, 105, 41>>,
             Poush, Magh>>,
           <<Pad(DashRange(Pad(Poush), EnDash, Pad(Magh))), Poush, Magh>> }

\* the entries of KnownRanges for the range of the current call
Known == {e \in KnownRanges : IsResolve /\ e[1] = call.nep_range}

\* Window A and Window B for the year of today y and the anchors sa, ea, as the
\* specification states them
WindowA(y, sa, ea) ==
    <<Date(y, sa.month, sa.day),
      Date(y + (IF ea.month < sa.month THEN 1 ELSE 0), ea.month, ea.day)>>
WindowB(y, sa, ea) ==
    <<Date(y - 1, sa.month, sa.day),
      Date(IF ea.month < sa.month THEN y ELSE y - 1, ea.month, ea.day)>>
InWin(w, dt) == DateLE(w[1], dt) /\ DateLE(dt, w[2])

First == ret.value[1]
Last  == ret.value[Len(ret.value)]
NonEmptyResult == ret.kind = "return" /\ ret.value /= <<>>

\* C1: writing the separator of a range with the em-dash, the hyphen, the
\* minus-sign or the en-dash gives the same result for the same today.
C1_DashVariantEquivalence ==
    IsResolve =>
        \A p \in DashTokens, d1 \in DashGlyphs, d2 \in DashGlyphs :
            call.nep_range = DashRange(p[1], d1, p[2]) =>
                ret = get_nepali_sowing_dates(DashRange(p[1], d2, p[2]), clock)

\* C2: in a batch for a recognized place, every crop whose range resolves is
\* present in the returned result with its dates, whether or not the range
\* of another crop of the batch fails.
C2_BatchIsolation ==
    (IsCrops /\ Column(call.place_name) /= "") =>
        LET col   == Column(call.place_name)
            crops == NotNa(df, col)
            out(i) == get_nepali_sowing_dates(crops[i][col][1], clock)
            lastOfKey(i) == \A j \in (i + 1)..Len(crops) :
                                CropKey(crops[j]) /= CropKey(crops[i])
        IN  \A i \in 1..Len(crops) :
                (out(i).kind = "return" /\ lastOfKey(i)) =>
                    /\ ret.result /= <<>>
                    /\ \E j \in 1..Len(ret.result[1]) :
                           ret.result[1][j] = <<CropKey(crops[i]), out(i).value>>

\* C3: a name that is empty or only whitespace after trimming fails with the
\* empty-input error and never yields a month.
C3_EmptyInput ==
    (IsNormalize /\ Strip(call.name) = <<>>) =>
        ret = Raise("Empty month name", <<>>)

\* the sentinel inputs as the specification words them
SentinelInput(r) ==
    LET s == LowerStr(Strip(r))
    IN  \/ s = <<>>
        \/ Contains(s, NotRecommend)
        \/ s \in { <<110, 47, 97>>, <<110, 97>>, <<110, 111, 110, 101>>,
                   NotRecommend \o <<101, 100>> }

\* C4: a non-empty, non-sentinel range without any dash glyph (fewer than two
\* segments) ends in a failure that carries the raw range, which is not the
\* empty sequence of a sentinel input.
C4_MalformedRange ==
    (/\ IsResolve
     /\ ~SentinelInput(call.nep_range)
     /\ \A i \in 1..Len(call.nep_range) : call.nep_range[i] \notin DashGlyphs) =>
        /\ ret.kind = "raise"
        /\ ret.arg = call.nep_range

\* C5: for a range of two canonical months the result is Window A if it
\* contains today, else Window B if it contains today, else Window A; it is
\* returned, not raised, and is never empty. "Baisakh-Jestha" on 2024-05-01
\* gives 2024-04-14 .. 2024-05-15, 32 days.
C5_WindowSelection ==
    \A e \in Known :
        LET a == WindowA(clock.y, Anchor(e[2]), Anchor(e[3]))
            b == WindowB(clock.y, Anchor(e[2]), Anchor(e[3]))
            expected == IF InWin(a, clock) THEN a
                        ELSE IF InWin(b, clock) THEN b
                        ELSE a
        IN  /\ NonEmptyResult
            /\ First = expected[1]
            /\ Last = expected[2]
            /\ Len(ret.value) = ToOrdinal(expected[2]) - ToOrdinal(expected[1]) + 1
            /\ (/\ call.nep_range = DashRange(Baisakh, EnDash, Jestha)
                /\ clock = Date(2024, 5, 1)) =>
                   /\ First = Date(2024, 4, 14)
                   /\ Last = Date(2024, 5, 15)
                   /\ Len(ret.value) = 32

\* the example of C5 has run
C5_Witness ==
    /\ IsResolve
    /\ call.nep_range = DashRange(Baisakh, EnDash, Jestha)
    /\ clock = Date(2024, 5, 1)
    /\ NonEmptyResult
    /\ Len(ret.value) = 32

\* C6: when the end month's anchor month is smaller than the start month's,
\* the resolved window ends in the year after the one it starts in; otherwise
\* it starts and ends in the same year.
C6_YearWrap ==
    \A e \in Known :
        /\ NonEmptyResult
        /\ Last.y = First.y
                    + (IF Anchor(e[3]).month < Anchor(e[2]).month THEN 1 ELSE 0)

\* "Poush-Magh" has been resolved into a window over the turn of the year
C6_Witness ==
    /\ IsResolve
    /\ call.nep_range = DashRange(Poush, EnDash, Magh)
    /\ NonEmptyResult
    /\ First.m = 12
    /\ Last.m = 1
    /\ Last.y = First.y + 1

\* C7: a non-empty result starts at the start date of one of the two
\* candidate windows, ends at that window's end date, start <= end, has
\* (end - start) + 1 elements, and each element is the day after the previous.
C7_DateSequence ==
    (IsResolve /\ NonEmptyResult) =>
        /\ DateLE(First, Last)
        /\ Len(ret.value) = ToOrdinal(Last) - ToOrdinal(First) + 1
        /\ \A i \in 1..(Len(ret.value) - 1) : ret.value[i + 1] = NextDay(ret.value[i])
        /\ \A i \in 1..Len(ret.value) :
               DateOk(ret.value[i].y, ret.value[i].m, ret.value[i].d)
        /\ \A e \in Known :
               \E w \in {WindowA(clock.y, Anchor(e[2]), Anchor(e[3])),
                         WindowB(clock.y, Anchor(e[2]), Anchor(e[3]))} :
                   DateLE(w[1], w[2]) /\ First = w[1] /\ Last = w[2]

\* a range whose start month is its end month gave the single anchor day
C7_Witness ==
    /\ IsResolve
    /\ call.nep_range = DashRange(Falgun, EnDash, Falgun)
    /\ NonEmptyResult
    /\ Len(ret.value) = 1
    /\ First = Date(clock.y, 2, 14)

\* C8: a sentinel input (empty after trimming, containing "not recommend",
\* or equal to "n/a", "na", "none", "not recommended", case-insensitively)
\* returns the empty sequence and raises nothing, also when it holds dash
\* glyphs or unrecognizable month tokens.
C8_SentinelDetection ==
    (IsResolve /\ SentinelInput(call.nep_range)) => ret = Return(<<>>)

\* a sentinel phrase followed by a dash and an unrecognizable token returned
\* the empty sequence
C8_Witness ==
    /\ IsResolve
    /\ call.nep_range = DashRange(NotRecommend, EnDash, Xyzzy)
    /\ ret = Return(<<>>)

\* C9: a name that equals a canonical name after trimming, whatever its
\* case, returns that name; a name whose trimmed lowercase form is "asoj",
\* "ashoj" or "aswin" returns Ashwin, and "baishakh" or "baishak" Baisakh.
C9_ResolutionOrder ==
    IsNormalize =>
        LET low == LowerStr(Strip(call.name))
        IN  /\ \A k \in KeySet : low = LowerStr(k) => ret = Return(k)
            /\ low \in { <<97, 115, 111, 106>>, <<97, 115, 104, 111, 106>>,
                         <<97, 115, 119, 105, 110>> } => ret = Return(Ashwin)
            /\ low \in { <<98, 97, 105, 115, 104, 97, 107, 104>>,
                         <<98, 97, 105, 115, 104, 97, 107>> } => ret = Return(Baisakh)

\* "ashoj", which the approximate match would take for Baisakh, gave Ashwin
C9_Witness ==
    /\ IsNormalize
    /\ call.name = <<97, 115, 104, 111, 106>>
    /\ get_close_matches(call.name, keys) = <<Baisakh>>
    /\ ret = Return(Ashwin)

\* C10: the two candidate windows are disjoint; for a range that does not
\* wrap, the earlier window lies in the year before today and the result
\* is the window of the year of today, which lies in the past when today is after
\* the end anchor; the earlier window is the result only for a wrapping
\* range with today on or before the end anchor of the year of today.
C10_EarlierWindowOnlyWhenWrapping ==
    \A e \in Known :
        LET y       == clock.y
            sa      == Anchor(e[2])
            ea      == Anchor(e[3])
            wraps   == ea.month < sa.month
            start1  == Start1(y, sa, ea)
            end1    == End1(y, sa, ea)
            start2  == Start2(y, sa, ea)
            end2    == End2(y, sa, ea)
            endHere == Date(y, ea.month, ea.day)
        IN  /\ NonEmptyResult
            /\ DateLE(start2, end2) /\ DateLT(end2, start1) /\ DateLE(start1, end1)
            /\ ~wraps =>
                   /\ start2.y = y - 1 /\ end2.y = y - 1
                   /\ First = WindowA(y, sa, ea)[1] /\ Last = WindowA(y, sa, ea)[2]
                   /\ First.y = y /\ Last.y = y
            /\ (~wraps /\ DateLT(endHere, clock)) => DateLT(Last, clock)
            /\ First = start2 => (wraps /\ DateLE(clock, endHere))

\* a range that does not wrap was resolved on the last day of the year into
\* a window that ended months before
C10_Witness ==
    /\ IsResolve
    /\ call.nep_range = DashRange(Baisakh, EnDash, Jestha)
    /\ clock.m = 12
    /\ clock.d = 31
    /\ NonEmptyResult
    /\ Last = Date(clock.y, 5, 15)
    /\ DateLT(Last, clock)

====
